---- MODULE Spec2Model ----
(***************************************************************************)
(* Model of the code-analysis tools of SW_Dev_MCP.py: search_code,         *)
(* find_files, count_lines_of_code, find_todos, find_duplicate_lines and   *)
(* extract_imports.  Text is a sequence of one-character strings; a file   *)
(* is the sequence of raw lines the text-mode iterator yields (each line   *)
(* keeps its trailing newline, the last one may lack it).                  *)
(***************************************************************************)
EXTENDS Integers, Sequences, FiniteSets, TLC

\* ------------------------------------------------------------------------
\* Bounds of the model
\* ------------------------------------------------------------------------
MaxEntries == 3      \* longest rglob enumeration explored
BigLines == 90       \* number of lines of the large generated files
DupGroups == 33      \* most distinct duplicated lines in a generated file
MaxDupLines == 4     \* longest enumerated file of find_duplicate_lines
MaxImportLines == 3  \* longest enumerated file of extract_imports

\* ------------------------------------------------------------------------
\* Program constants
\* ------------------------------------------------------------------------
SEARCH_LIMIT == 100
DUPLICATE_LIMIT == 20
DISPLAY_WIDTH == 80
DEFAULT_MIN_LENGTH == 10

\* ------------------------------------------------------------------------
\* str: characters, case mapping, whitespace
\* ------------------------------------------------------------------------
LowerLetters == <<"a","b","c","d","e","f","g","h","i","j","k","l","m",
                  "n","o","p","q","r","s","t","u","v","w","x","y","z">>
UpperLetters == <<"A","B","C","D","E","F","G","H","I","J","K","L","M",
                  "N","O","P","Q","R","S","T","U","V","W","X","Y","Z">>

\* U+212A KELVIN SIGN: an upper-case letter whose lower case is ASCII "k"
KelvinSign == "U+212A"

Whitespace == {" ", "\t", "\n", "\r"}

\* str.upper() on one character
upper(c) ==
    IF \E i \in 1..26 : LowerLetters[i] = c
    THEN UpperLetters[CHOOSE i \in 1..26 : LowerLetters[i] = c]
    ELSE c

\* the lower-casing re applies to both sides under re.IGNORECASE
lower(c) ==
    IF \E i \in 1..26 : UpperLetters[i] = c
    THEN LowerLetters[CHOOSE i \in 1..26 : UpperLetters[i] = c]
    ELSE IF c = KelvinSign THEN "k" ELSE c

\* str.upper() on a string
upper_str(s) == [i \in 1..Len(s) |-> upper(s[i])]

\* str.rstrip(): cut after the last character that is not whitespace
rstrip(s) ==
    SubSeq(s, 1, CHOOSE n \in 0..Len(s) :
                     /\ n = 0 \/ s[n] \notin Whitespace
                     /\ \A j \in (n + 1)..Len(s) : s[j] \in Whitespace)

\* str.lstrip(): start at the first character that is not whitespace
lstrip(s) ==
    SubSeq(s, CHOOSE n \in 1..(Len(s) + 1) :
                  /\ n = Len(s) + 1 \/ s[n] \notin Whitespace
                  /\ \A j \in 1..(n - 1) : s[j] \in Whitespace,
           Len(s))

\* str.strip()
strip(s) == lstrip(rstrip(s))

\* s[:n]
slice_to(s, n) == SubSeq(s, 1, IF Len(s) < n THEN Len(s) ELSE n)

\* s.startswith(p) at offset i (1-based), case-sensitive
match_at(s, i, p) ==
    /\ i + Len(p) - 1 <= Len(s)
    /\ \A j \in 1..Len(p) : s[i + j - 1] = p[j]

\* literal match at offset i under re.IGNORECASE
imatch_at(s, i, p) ==
    /\ i + Len(p) - 1 <= Len(s)
    /\ \A j \in 1..Len(p) : lower(s[i + j - 1]) = lower(p[j])

\* str.split(sep) for a one-character separator
RECURSIVE split(_, _)
split(s, sep) ==
    LET at == {i \in 1..Len(s) : s[i] = sep}
    IN IF at = {} THEN <<s>>
       ELSE LET i == CHOOSE k \in at : \A j \in at : k <= j
            IN <<SubSeq(s, 1, i - 1)>> \o split(SubSeq(s, i + 1, Len(s)), sep)

\* the elements of a sequence
Range(s) == {s[i] : i \in 1..Len(s)}


\* ------------------------------------------------------------------------
\* pathlib: the last path component and its suffix
\* ------------------------------------------------------------------------
\* PurePath.name: the text after the last "/"
path_name(path) ==
    LET at == {i \in 1..Len(path) : path[i] = "/"}
        k == IF at = {} THEN 0 ELSE CHOOSE i \in at : \A j \in at : j <= i
    IN SubSeq(path, k + 1, Len(path))

\* PurePath.suffix: name[i:] for i = name.rfind("."), when 0 < i < len(name)-1
\* (0-based), and "" otherwise
path_suffix(path) ==
    LET name == path_name(path)
        at == {i \in 1..Len(name) : name[i] = "."}
        k == IF at = {} THEN 0 ELSE CHOOSE i \in at : \A j \in at : j <= i
    IN IF 1 < k /\ k < Len(name) THEN SubSeq(name, k, Len(name)) ELSE <<>>

\* file_path.suffix[1:]
suffix_tail(path) == SubSeq(path_suffix(path), 2, Len(path_suffix(path)))

\* fnmatch of a name against a glob pattern of literals and "*"
RECURSIVE fnmatch(_, _)
fnmatch(name, pat) ==
    IF pat = <<>> THEN name = <<>>
    ELSE IF pat[1] = "*"
         THEN \E k \in 0..Len(name) :
                  fnmatch(SubSeq(name, k + 1, Len(name)), Tail(pat))
         ELSE /\ name # <<>>
              /\ name[1] = pat[1]
              /\ fnmatch(Tail(name), Tail(pat))

\* ------------------------------------------------------------------------
\* The file system under the root: entries in the order rglob yields them.
\* failAt = -1: the file opens and reads; 0: open() raises; k > 0: the read
\* raises after k lines were delivered.
\* ------------------------------------------------------------------------
Entry(p, f, ls, k) == [path |-> p, is_file |-> f, lines |-> ls, failAt |-> k]

TodoLine == <<"#"," ","T","O","D","O",":"," ","f","i","x"," ","\n">>
PlainLine == <<"x"," ","="," ","t","o","\n">>
DocLine == <<"T","O","D","O",":"," ","d","o","c","\n">>
BlankFixme == <<"/","/"," ","f","i","x","m","e",":"," "," ","\n">>
BareNote == <<"N","o","t","e",":","\n">>
TwoMarkers == <<"a"," ","T","o","D","o",":"," ","b"," ","X","X","X",":"," ","c","\n">>
KelvinHack == <<"h","a","c",KelvinSign,":"," ","z">>
HiddenLine == <<"t","o","d","o",":","\t","h","\n">>

\* a generated file of n lines, two of every three holding "to"
BigFile(n) ==
    [i \in 1..n |-> IF i % 3 = 0 THEN <<"u","\n">> ELSE <<"t","o","\n">>]

PathAPy == <<"a",".","p","y">>
PathReadme == <<"r",".","m","d">>
PathDir == <<"d",".","p","y">>
PathCpp == <<"d",".","p","y","/","m",".","c","p","p">>
PathBigPy == <<"b",".","p","y">>
PathBigJs == <<"b",".","j","s">>
PathHidden == <<".","p","y">>

Pool ==
    { Entry(PathAPy, TRUE, <<TodoLine, PlainLine>>, -1),
      Entry(PathAPy, TRUE, <<TodoLine, PlainLine>>, 0),
      Entry(PathAPy, TRUE, <<TodoLine, PlainLine>>, 1),
      Entry(PathReadme, TRUE, <<DocLine>>, -1),
      Entry(PathDir, FALSE, <<>>, -1),
      Entry(PathCpp, TRUE, <<BlankFixme, BareNote, TwoMarkers, KelvinHack>>, -1),
      Entry(PathBigPy, TRUE, BigFile(BigLines), -1),
      Entry(PathBigJs, TRUE, BigFile(BigLines), -1),
      Entry(PathHidden, TRUE, <<HiddenLine>>, -1) }

\* the directory part of a path ("" for an entry directly under the root)
path_parent(path) ==
    SubSeq(path, 1, Len(path) - Len(path_name(path)) - 1)

\* enumerations of at most MaxEntries entries with pairwise distinct paths,
\* every nested entry coming after the directory that holds it
Trees ==
    UNION { { t \in [1..n -> Pool] :
                /\ \A i \in 1..n : \A j \in 1..n :
                       i # j => t[i].path # t[j].path
                /\ \A i \in 1..n :
                       path_parent(t[i].path) # <<>> =>
                           \E j \in 1..(i - 1) :
                               /\ t[j].path = path_parent(t[i].path)
                               /\ ~t[j].is_file }
            : n \in 0..MaxEntries }

\* Optional[str]
None == [is_none |-> TRUE, val |-> <<>>]
Some(s) == [is_none |-> FALSE, val |-> s]

ExtPy == <<"p","y">>
ExtDotPy == <<".","p","y">>
ExtUpperPy == <<"P","Y">>
ExtList == <<"j","s",","," ","p","y">>

PatTo == <<"T","o">>
PatNever == <<"q">>
PatBad == <<"[","t">>

GlobAll == <<"*">>
GlobPy == <<"*",".","p","y">>
GlobName == <<"m",".","c","p","p">>


\* ------------------------------------------------------------------------
\* State
\* ------------------------------------------------------------------------
VARIABLES
    op,               \* the tool being run
    pc,               \* "walk" | "open" | "read" | "done"
    root_kind,        \* "dir" | "file" | "missing": what `directory` names
    tree,             \* what lies under the root, in rglob order
    idx,              \* position of the rglob iteration / of the line loop
    pattern,          \* search_code / find_files: pattern
    file_extensions,  \* search_code / count_lines_of_code: Optional[str]
    opened,           \* paths handed to open() so far, in order
    results,          \* search_code: results
    matches,          \* find_files: matches
    stats,            \* count_lines_of_code: stats (Counter)
    total_lines,      \* count_lines_of_code: total_lines
    total_files,      \* count_lines_of_code: total_files
    todos,            \* find_todos: todos
    file_exists,      \* single-file tools: path.exists()
    content,          \* single-file tools: the raw lines of the file
    min_length,       \* find_duplicate_lines: min_length
    lines,            \* find_duplicate_lines: lines
    imports,          \* extract_imports: imports
    result            \* the returned value

vars == <<op, pc, root_kind, tree, idx, pattern, file_extensions, opened,
          results, matches, stats, total_lines, total_files, todos,
          file_exists, content, min_length, lines, imports, result>>

treeInputs == <<op, root_kind, tree, pattern, file_extensions>>
fileVars == <<file_exists, content, min_length, lines, imports>>

Pending == [kind |-> "pending", body |-> <<>>]
Sentinel == [kind |-> "sentinel", body |-> <<>>]
Error == [kind |-> "error", body |-> <<>>]
Ok(b) == [kind |-> "ok", body |-> b]

\* path.rglob(...): a root that is missing or is not a directory yields nothing
rglob(kind, t) == IF kind = "dir" THEN t ELSE <<>>

\* [ext.strip() for ext in file_extensions.split(",")] if file_extensions else None
parse_extensions(fe) ==
    IF fe.is_none \/ fe.val = <<>> THEN None
    ELSE LET parts == split(fe.val, ",")
         IN Some([i \in 1..Len(parts) |-> strip(parts[i])])

\* not (extensions and file_path.suffix[1:] not in extensions)
passes_filter(e, fe) ==
    LET extensions == parse_extensions(fe)
    IN ~(~extensions.is_none /\ suffix_tail(e.path) \notin Range(extensions.val))

\* the lines the iterator delivers before the file is exhausted or raises
delivered(e) ==
    IF e.failAt < 0 THEN e.lines
    ELSE SubSeq(e.lines, 1, IF e.failAt < Len(e.lines) THEN e.failAt ELSE Len(e.lines))

\* ------------------------------------------------------------------------
\* re: the patterns used are literals; "[" opens a character set that is
\* never closed, which re.compile rejects with re.error
\* ------------------------------------------------------------------------
re_compiles(pat) == \A i \in 1..Len(pat) : pat[i] # "["

\* re.search(pattern, line, re.IGNORECASE) for a pattern that compiles
re_search(pat, line) == \E i \in 1..(Len(line) + 1) : imatch_at(line, i, pat)


\* ------------------------------------------------------------------------
\* search_code
\* ------------------------------------------------------------------------
SearchHit(e, n) == [path |-> e.path, line_num |-> n, text |-> strip(e.lines[n])]

\* the enumerate(f, 1) loop over lines lo..hi of a file: what it appends
RECURSIVE search_lines(_, _, _, _)
search_lines(e, pat, lo, hi) ==
    IF lo > hi THEN <<>>
    ELSE IF lo = hi
         THEN IF re_search(pat, e.lines[lo]) THEN <<SearchHit(e, lo)>> ELSE <<>>
         ELSE LET mid == (lo + hi) \div 2
              IN search_lines(e, pat, lo, mid) \o search_lines(e, pat, mid + 1, hi)

\* what one pass of the inner try block appends to results: re.search raises
\* re.error on the first line when the pattern does not compile, and the bare
\* except swallows that like any failure of open() or of the read
search_code_scan(e, pat) ==
    IF re_compiles(pat) THEN search_lines(e, pat, 1, Len(delivered(e))) ELSE <<>>

\* search_code_render keeping the last 100 results instead of the first
search_code_render_tail(res) ==
    IF res # <<>>
    THEN Ok(SubSeq(res, IF Len(res) > SEARCH_LIMIT THEN Len(res) - SEARCH_LIMIT + 1 ELSE 1,
                   Len(res)))
    ELSE Sentinel

\* "\n".join(results[:100]) if results, else the "No matches found" string
search_code_render(res) ==
    IF res # <<>> THEN Ok(slice_to(res, SEARCH_LIMIT)) ELSE Sentinel

search_code_visit ==
    /\ op = "search_code" /\ pc = "walk"
    /\ idx <= Len(rglob(root_kind, tree))
    /\ LET e == rglob(root_kind, tree)[idx]
       IN IF e.is_file /\ passes_filter(e, file_extensions)
          THEN /\ opened' = IF e.failAt = 0 THEN opened ELSE Append(opened, e.path)
               /\ results' = results \o search_code_scan(e, pattern)
          ELSE UNCHANGED <<opened, results>>
    /\ idx' = idx + 1
    /\ UNCHANGED <<treeInputs, pc, matches, stats, total_lines, total_files,
                   todos, fileVars, result>>

search_code_return ==
    /\ op = "search_code" /\ pc = "walk"
    /\ idx > Len(rglob(root_kind, tree))
    /\ result' = search_code_render(results)
    /\ pc' = "done"
    /\ UNCHANGED <<treeInputs, idx, opened, results, matches, stats,
                   total_lines, total_files, todos, fileVars>>

\* ------------------------------------------------------------------------
\* find_files
\* ------------------------------------------------------------------------
\* "\n".join(matches) if matches, else the "No files found" string
find_files_render(ms) == IF ms # <<>> THEN Ok(ms) ELSE Sentinel

find_files_visit ==
    /\ op = "find_files" /\ pc = "walk"
    /\ idx <= Len(rglob(root_kind, tree))
    /\ LET e == rglob(root_kind, tree)[idx]
       IN matches' = IF fnmatch(path_name(e.path), pattern) /\ e.is_file
                     THEN Append(matches, e.path)
                     ELSE matches
    /\ idx' = idx + 1
    /\ UNCHANGED <<treeInputs, pc, opened, results, stats, total_lines,
                   total_files, todos, fileVars, result>>

find_files_return ==
    /\ op = "find_files" /\ pc = "walk"
    /\ idx > Len(rglob(root_kind, tree))
    /\ result' = find_files_render(matches)
    /\ pc' = "done"
    /\ UNCHANGED <<treeInputs, idx, opened, results, matches, stats,
                   total_lines, total_files, todos, fileVars>>

\* ------------------------------------------------------------------------
\* count_lines_of_code
\* ------------------------------------------------------------------------
NoExtension == <<"n","o"," ","e","x","t","e","n","s","i","o","n">>

\* file_path.suffix[1:] or "no extension"
ext_key(e) == IF suffix_tail(e.path) = <<>> THEN NoExtension ELSE suffix_tail(e.path)

\* counter_add assigning the count instead of adding it
counter_add_overwrite(c, key, n) ==
    IF key \in DOMAIN c THEN [c EXCEPT ![key] = n] ELSE c @@ (key :> n)

\* stats[ext] += lines on a Counter
counter_add(c, key, n) ==
    IF key \in DOMAIN c THEN [c EXCEPT ![key] = @ + n] ELSE c @@ (key :> n)

\* total_lines += lines
total_lines_add(total, n) == total + n

\* total_files += 1
total_files_add(total) == total + 1

\* json.dumps of the summary
count_lines_render(files, total, c) ==
    Ok(<<[total_files |-> files, total_lines |-> total, by_extension |-> c]>>)

count_lines_visit ==
    /\ op = "count_lines_of_code" /\ pc = "walk"
    /\ idx <= Len(rglob(root_kind, tree))
    /\ LET e == rglob(root_kind, tree)[idx]
       IN IF e.is_file /\ passes_filter(e, file_extensions)
          THEN /\ opened' = IF e.failAt = 0 THEN opened ELSE Append(opened, e.path)
               /\ IF e.failAt < 0
                  THEN /\ stats' = counter_add(stats, ext_key(e), Len(e.lines))
                       /\ total_lines' = total_lines_add(total_lines, Len(e.lines))
                       /\ total_files' = total_files_add(total_files)
                  ELSE UNCHANGED <<stats, total_lines, total_files>>
          ELSE UNCHANGED <<opened, stats, total_lines, total_files>>
    /\ idx' = idx + 1
    /\ UNCHANGED <<treeInputs, pc, results, matches, todos, fileVars, result>>

count_lines_return ==
    /\ op = "count_lines_of_code" /\ pc = "walk"
    /\ idx > Len(rglob(root_kind, tree))
    /\ result' = count_lines_render(total_files, total_lines, stats)
    /\ pc' = "done"
    /\ UNCHANGED <<treeInputs, idx, opened, results, matches, stats,
                   total_lines, total_files, todos, fileVars>>

\* ------------------------------------------------------------------------
\* find_todos
\* ------------------------------------------------------------------------
Markers == << <<"T","O","D","O">>, <<"F","I","X","M","E">>, <<"N","O","T","E">>,
              <<"X","X","X">>, <<"H","A","C","K">> >>

SourceSuffixes ==
    { <<".","p","y">>, <<".","j","s">>, <<".","t","s">>,
      <<".","j","a","v","a">>, <<".","c","p","p">>, <<".","c">>,
      <<".","g","o">>, <<".","r","s">>, <<".","r","b">>, <<".","p","h","p">> }

NoMatch == [found |-> FALSE, group1 |-> <<>>, group2 |-> <<>>]

MaxOf(S) == CHOOSE x \in S : \A y \in S : y <= x
MinOf(S) == CHOOSE x \in S : \A y \in S : x <= y

\* (TODO|FIXME|NOTE|XXX|HACK):\s*(.+) under re.IGNORECASE, anchored at i:
\* \s* is greedy and gives back until (.+) finds a character other than "\n"
todo_match_at(line, i) ==
    LET ms == {m \in 1..Len(Markers) : imatch_at(line, i, Markers[m] \o <<":">>)}
    IN IF ms = {} THEN NoMatch
       ELSE LET m == MinOf(ms)
                after == i + Len(Markers[m]) + 1
                starts == {b \in after..Len(line) :
                              /\ \A x \in after..(b - 1) : line[x] \in Whitespace
                              /\ line[b] # "\n"}
            IN IF starts = {} THEN NoMatch
               ELSE LET b == MaxOf(starts)
                        e == MaxOf({y \in b..Len(line) :
                                        \A x \in b..y : line[x] # "\n"})
                    IN [found |-> TRUE,
                        group1 |-> SubSeq(line, i, i + Len(Markers[m]) - 1),
                        group2 |-> SubSeq(line, b, e)]

\* pattern.search(line): the match at the leftmost position that has one
todo_search(line) ==
    LET at == {i \in 1..Len(line) : todo_match_at(line, i).found}
    IN IF at = {} THEN NoMatch ELSE todo_match_at(line, MinOf(at))

\* f"{file_path}:{line_num} - {match.group(1).upper()}: {match.group(2).strip()}"
TodoHit(e, n, m) ==
    [path |-> e.path, line_num |-> n, kind |-> upper_str(m.group1),
     message |-> strip(m.group2)]

\* the enumerate(f, 1) loop over lines lo..hi of a file: what it appends
RECURSIVE todo_lines(_, _, _)
todo_lines(e, lo, hi) ==
    IF lo > hi THEN <<>>
    ELSE IF lo = hi
         THEN LET m == todo_search(e.lines[lo])
              IN IF m.found THEN <<TodoHit(e, lo, m)>> ELSE <<>>
         ELSE LET mid == (lo + hi) \div 2
              IN todo_lines(e, lo, mid) \o todo_lines(e, mid + 1, hi)

\* file_path.is_file() and file_path.suffix in [...]
todo_candidate(e) == e.is_file /\ path_suffix(e.path) \in SourceSuffixes

\* "\n".join(todos) if todos, else the "No TODOs/FIXMEs found" string
find_todos_render(ts) == IF ts # <<>> THEN Ok(ts) ELSE Sentinel

find_todos_visit ==
    /\ op = "find_todos" /\ pc = "walk"
    /\ idx <= Len(rglob(root_kind, tree))
    /\ LET e == rglob(root_kind, tree)[idx]
       IN IF todo_candidate(e)
          THEN /\ opened' = IF e.failAt = 0 THEN opened ELSE Append(opened, e.path)
               /\ todos' = todos \o todo_lines(e, 1, Len(delivered(e)))
          ELSE UNCHANGED <<opened, todos>>
    /\ idx' = idx + 1
    /\ UNCHANGED <<treeInputs, pc, results, matches, stats, total_lines,
                   total_files, fileVars, result>>

find_todos_return ==
    /\ op = "find_todos" /\ pc = "walk"
    /\ idx > Len(rglob(root_kind, tree))
    /\ result' = find_todos_render(todos)
    /\ pc' = "done"
    /\ UNCHANGED <<treeInputs, idx, opened, results, matches, stats,
                   total_lines, total_files, todos, fileVars>>

\* ------------------------------------------------------------------------
\* Tree tools: initial states and specifications
\* ------------------------------------------------------------------------
RootKinds == {"dir", "file", "missing"}

\* the accumulators as the tools create them, and no single-file request
InitLocals ==
    /\ pc = "walk" /\ idx = 1
    /\ opened = <<>> /\ results = <<>> /\ matches = <<>>
    /\ stats = <<>> /\ total_lines = 0 /\ total_files = 0
    /\ todos = <<>>
    /\ file_exists = FALSE /\ content = <<>> /\ min_length = DEFAULT_MIN_LENGTH
    /\ lines = <<>> /\ imports = <<>>
    /\ result = Pending

\* a root that is not a directory has nothing under it
InitRoot ==
    /\ root_kind \in RootKinds
    /\ tree \in IF root_kind = "dir" THEN Trees ELSE {<<>>}

InitSearch ==
    /\ op = "search_code"
    /\ InitRoot
    /\ pattern \in {PatTo, PatNever, PatBad}
    /\ file_extensions \in {None, Some(ExtPy), Some(ExtDotPy), Some(ExtUpperPy),
                            Some(ExtList)}
    /\ InitLocals

InitFind ==
    /\ op = "find_files"
    /\ InitRoot
    /\ pattern \in {GlobAll, GlobPy, GlobName}
    /\ file_extensions = None
    /\ InitLocals

InitCount ==
    /\ op = "count_lines_of_code"
    /\ InitRoot
    /\ pattern = <<>>
    /\ file_extensions \in {None, Some(ExtPy), Some(ExtDotPy), Some(ExtUpperPy),
                            Some(ExtList)}
    /\ InitLocals

InitTodos ==
    /\ op = "find_todos"
    /\ InitRoot
    /\ pattern = <<>>
    /\ file_extensions = None
    /\ InitLocals

NextSearch == search_code_visit \/ search_code_return
NextFind == find_files_visit \/ find_files_return
NextCount == count_lines_visit \/ count_lines_return
NextTodos == find_todos_visit \/ find_todos_return

SpecSearch == InitSearch /\ [][NextSearch]_vars
SpecFind == InitFind /\ [][NextFind]_vars
SpecCount == InitCount /\ [][NextCount]_vars
SpecTodos == InitTodos /\ [][NextTodos]_vars

InitTree == InitSearch \/ InitFind \/ InitCount \/ InitTodos
NextTree == NextSearch \/ NextFind \/ NextCount \/ NextTodos
SpecTree == InitTree /\ [][NextTree]_vars


\* ------------------------------------------------------------------------
\* find_duplicate_lines
\* ------------------------------------------------------------------------
\* [line.rstrip() for line in f if len(line.strip()) >= min_length], lo..hi
RECURSIVE kept_lines(_, _, _, _)
kept_lines(f, n, lo, hi) ==
    IF lo > hi THEN <<>>
    ELSE IF lo = hi
         THEN IF Len(strip(f[lo])) >= n THEN <<rstrip(f[lo])>> ELSE <<>>
         ELSE LET mid == (lo + hi) \div 2
              IN kept_lines(f, n, lo, mid) \o kept_lines(f, n, mid + 1, hi)

\* Counter.update: the counts of b added to a, new keys after the old ones
counter_merge(a, b) ==
    LET akeys == {a[i].line : i \in 1..Len(a)}
        bump(x) == LET js == {j \in 1..Len(b) : b[j].line = x.line}
                   IN IF js = {} THEN x
                      ELSE [x EXCEPT !.count = @ + b[MinOf(js)].count]
    IN [i \in 1..Len(a) |-> bump(a[i])]
       \o SelectSeq(b, LAMBDA y : y.line \notin akeys)

\* Counter(lines[lo..hi]).items(): keys in order of first insertion
RECURSIVE line_counter(_, _, _)
line_counter(ls, lo, hi) ==
    IF lo > hi THEN <<>>
    ELSE IF lo = hi THEN <<[line |-> ls[lo], count |-> 1]>>
         ELSE LET mid == (lo + hi) \div 2
              IN counter_merge(line_counter(ls, lo, mid),
                               line_counter(ls, mid + 1, hi))

\* {line: count for line, count in line_counts.items() if count > 1}
duplicates_of(counts) == SelectSeq(counts, LAMBDA x : x.count > 1)

\* merge_desc taking the right run first on ties
RECURSIVE merge_desc_right_first(_, _)
merge_desc_right_first(a, b) ==
    IF a = <<>> THEN b
    ELSE IF b = <<>> THEN a
         ELSE IF b[1].count >= a[1].count
              THEN <<b[1]>> \o merge_desc_right_first(a, Tail(b))
              ELSE <<a[1]>> \o merge_desc_right_first(Tail(a), b)

\* merging two runs sorted by count descending, the left run first on ties
RECURSIVE merge_desc(_, _)
merge_desc(a, b) ==
    IF a = <<>> THEN b
    ELSE IF b = <<>> THEN a
         ELSE IF b[1].count > a[1].count
              THEN <<b[1]>> \o merge_desc(a, Tail(b))
              ELSE <<a[1]>> \o merge_desc(Tail(a), b)

\* sorted(items, key=lambda x: x[1], reverse=True): a stable merge sort
RECURSIVE sorted_desc(_)
sorted_desc(items) ==
    IF Len(items) <= 1 THEN items
    ELSE LET mid == Len(items) \div 2
         IN merge_desc(sorted_desc(SubSeq(items, 1, mid)),
                       sorted_desc(SubSeq(items, mid + 1, Len(items))))

Ellipsis == <<".", ".", ".">>

\* f"({count}x) {line[:80]}..."
duplicate_row(x) ==
    [count |-> x.count, shown |-> slice_to(x.line, DISPLAY_WIDTH) \o Ellipsis]

\* "\n".join(result[:20]) if duplicates, else the "No duplicate lines" string
find_duplicates_render(dups) ==
    IF dups # <<>>
    THEN LET ordered == sorted_desc(dups)
             rows == [i \in 1..Len(ordered) |-> duplicate_row(ordered[i])]
         IN Ok(slice_to(rows, DUPLICATE_LIMIT))
    ELSE Sentinel

find_duplicate_lines_missing ==
    /\ op = "find_duplicate_lines" /\ pc = "open"
    /\ ~file_exists
    /\ result' = Error
    /\ pc' = "done"
    /\ UNCHANGED <<treeInputs, idx, opened, results, matches, stats,
                   total_lines, total_files, todos, fileVars>>

find_duplicate_lines_read ==
    /\ op = "find_duplicate_lines" /\ pc = "open"
    /\ file_exists
    /\ lines' = kept_lines(content, min_length, 1, Len(content))
    /\ pc' = "read"
    /\ UNCHANGED <<treeInputs, idx, opened, results, matches, stats,
                   total_lines, total_files, todos, file_exists, content,
                   min_length, imports, result>>

find_duplicate_lines_return ==
    /\ op = "find_duplicate_lines" /\ pc = "read"
    /\ result' = find_duplicates_render(
                     duplicates_of(line_counter(lines, 1, Len(lines))))
    /\ pc' = "done"
    /\ UNCHANGED <<treeInputs, idx, opened, results, matches, stats,
                   total_lines, total_files, todos, fileVars>>

\* ------------------------------------------------------------------------
\* extract_imports
\* ------------------------------------------------------------------------
Str_import == <<"i","m","p","o","r","t"," ">>
Str_from == <<"f","r","o","m"," ">>
Str_mid_import == <<" ","i","m","p","o","r","t"," ">>
Str_const == <<"c","o","n","s","t"," ">>
Str_var == <<"v","a","r"," ">>
Str_require == <<" ","="," ","r","e","q","u","i","r","e","(">>

\* re.match of  head .+ tail  at the start of s
re_match_between(s, head, tail) ==
    /\ match_at(s, 1, head)
    /\ \E k \in (Len(head) + 2)..Len(s) : match_at(s, k, tail)

\* re.match(r'^(import |from .+ import )', s)
python_import(s) ==
    match_at(s, 1, Str_import) \/ re_match_between(s, Str_from, Str_mid_import)

\* re.match(r'^(import |const .+ = require\(|var .+ = require\()', s)
js_import(s) ==
    \/ match_at(s, 1, Str_import)
    \/ re_match_between(s, Str_const, Str_require)
    \/ re_match_between(s, Str_var, Str_require)

\* import_of without the branch of the second pattern
import_of_first_pattern_only(line) ==
    IF python_import(strip(line)) THEN <<strip(line)>> ELSE <<>>

\* the body of the loop for one line: what it appends to imports
import_of(line) ==
    IF python_import(strip(line)) THEN <<strip(line)>>
    ELSE IF js_import(strip(line)) THEN <<strip(line)>>
         ELSE <<>>

\* "\n".join(imports) if imports, else the "No imports found" string
extract_imports_render(ims) == IF ims # <<>> THEN Ok(ims) ELSE Sentinel

extract_imports_missing ==
    /\ op = "extract_imports" /\ pc = "open"
    /\ ~file_exists
    /\ result' = Error
    /\ pc' = "done"
    /\ UNCHANGED <<treeInputs, idx, opened, results, matches, stats,
                   total_lines, total_files, todos, fileVars>>

extract_imports_open ==
    /\ op = "extract_imports" /\ pc = "open"
    /\ file_exists
    /\ pc' = "read"
    /\ UNCHANGED <<treeInputs, idx, opened, results, matches, stats,
                   total_lines, total_files, todos, fileVars, result>>

extract_imports_line ==
    /\ op = "extract_imports" /\ pc = "read"
    /\ idx <= Len(content)
    /\ imports' = imports \o import_of(content[idx])
    /\ idx' = idx + 1
    /\ UNCHANGED <<treeInputs, pc, opened, results, matches, stats,
                   total_lines, total_files, todos, file_exists, content,
                   min_length, lines, result>>

extract_imports_return ==
    /\ op = "extract_imports" /\ pc = "read"
    /\ idx > Len(content)
    /\ result' = extract_imports_render(imports)
    /\ pc' = "done"
    /\ UNCHANGED <<treeInputs, idx, opened, results, matches, stats,
                   total_lines, total_files, todos, fileVars>>

\* ------------------------------------------------------------------------
\* Single-file tools: inputs, initial states and specifications
\* ------------------------------------------------------------------------
Rep(c, n) == [i \in 1..n |-> c]

\* the two-letter text of generated line i, with its newline
GenLine(i) ==
    <<LowerLetters[((i - 1) % 26) + 1], LowerLetters[((i - 1) \div 26) + 1], "\n">>

\* how often generated line i occurs: 1, 2 or 3 times
GenCount(i) == 1 + (i % 3)

\* pass k over g generated lines, ascending or descending, holding every line
\* that occurs at least k times
GenPass(g, k, ascending) ==
    LET order == [j \in 1..g |-> IF ascending THEN j ELSE g + 1 - j]
        kept == SelectSeq(order, LAMBDA i : GenCount(i) >= k)
    IN [j \in 1..Len(kept) |-> GenLine(kept[j])]

\* a file of g distinct generated lines in three passes
GenFile(g, ascending) ==
    GenPass(g, 1, ascending) \o GenPass(g, 2, ascending) \o GenPass(g, 3, ascending)

DupLineAb == <<"a","b","\n">>
DupLineAbTrail == <<"a","b"," "," ","\n">>
DupLineAbLead == <<" ","a","b","\n">>
DupLineWide == Rep("w", DISPLAY_WIDTH) \o <<"\n">>
DupLineLong == Rep("w", DISPLAY_WIDTH + 1) \o <<"\n">>

DupAlphabet == {DupLineAb, DupLineAbTrail, DupLineAbLead, DupLineWide,
                DupLineLong}

SeqsUpTo(S, n) == UNION {[1..k -> S] : k \in 0..n}

DupFiles ==
    SeqsUpTo(DupAlphabet, MaxDupLines)
        \cup {GenFile(g, a) : g \in 0..DupGroups, a \in BOOLEAN}

ImpLineImport == <<"i","m","p","o","r","t"," ","o","s","\n">>
ImpLineIndented == <<" "," ","i","m","p","o","r","t"," ","o","s"," ","\n">>
ImpLineFrom == <<"f","r","o","m"," ","a"," ","i","m","p","o","r","t"," ","b","\n">>
ImpLineConst == <<"c","o","n","s","t"," ","a"," ","="," ","r","e","q","u","i","r","e","(","b",")","\n">>
ImpLineVar == <<"\t","v","a","r"," ","a"," ","="," ","r","e","q","u","i","r","e","(","b",")">>
ImpLineAssign == <<" "," ","x"," ","="," ","1","\n">>
ImpLineBare == <<"i","m","p","o","r","t"," ","\n">>

ImpAlphabet == {ImpLineImport, ImpLineIndented, ImpLineFrom, ImpLineConst,
                ImpLineVar, ImpLineAssign, ImpLineBare}

InitFileLocals ==
    /\ pc = "open" /\ idx = 1
    /\ root_kind = "dir" /\ tree = <<>> /\ pattern = <<>>
    /\ file_extensions = None
    /\ opened = <<>> /\ results = <<>> /\ matches = <<>>
    /\ stats = <<>> /\ total_lines = 0 /\ total_files = 0
    /\ todos = <<>>
    /\ lines = <<>> /\ imports = <<>>
    /\ result = Pending

InitDup ==
    /\ op = "find_duplicate_lines"
    /\ file_exists \in BOOLEAN
    /\ content \in IF file_exists THEN DupFiles ELSE {<<>>}
    /\ min_length \in {0, 3, DEFAULT_MIN_LENGTH}
    /\ InitFileLocals

InitImports ==
    /\ op = "extract_imports"
    /\ file_exists \in BOOLEAN
    /\ content \in IF file_exists THEN SeqsUpTo(ImpAlphabet, MaxImportLines) ELSE {<<>>}
    /\ min_length = DEFAULT_MIN_LENGTH
    /\ InitFileLocals

NextDup ==
    \/ find_duplicate_lines_missing
    \/ find_duplicate_lines_read
    \/ find_duplicate_lines_return

NextImports ==
    \/ extract_imports_missing
    \/ extract_imports_open
    \/ extract_imports_line
    \/ extract_imports_return

SpecDup == InitDup /\ [][NextDup]_vars
SpecImports == InitImports /\ [][NextImports]_vars


\* ------------------------------------------------------------------------
\* The tree tools as functions of the enumeration
\* ------------------------------------------------------------------------
RECURSIVE search_code_results(_, _, _)
search_code_results(t, pat, fe) ==
    IF t = <<>> THEN <<>>
    ELSE (IF t[1].is_file /\ passes_filter(t[1], fe)
          THEN search_code_scan(t[1], pat) ELSE <<>>)
         \o search_code_results(Tail(t), pat, fe)

search_code_run(t, pat, fe) == search_code_render(search_code_results(t, pat, fe))

RECURSIVE find_todos_results(_)
find_todos_results(t) ==
    IF t = <<>> THEN <<>>
    ELSE (IF todo_candidate(t[1])
          THEN todo_lines(t[1], 1, Len(delivered(t[1]))) ELSE <<>>)
         \o find_todos_results(Tail(t))

find_todos_run(t) == find_todos_render(find_todos_results(t))

RECURSIVE count_lines_fold(_, _, _)
count_lines_fold(t, fe, acc) ==
    IF t = <<>> THEN acc
    ELSE count_lines_fold(Tail(t), fe,
             IF t[1].is_file /\ passes_filter(t[1], fe) /\ t[1].failAt < 0
             THEN [files |-> total_files_add(acc.files),
                   total |-> total_lines_add(acc.total, Len(t[1].lines)),
                   stats |-> counter_add(acc.stats, ext_key(t[1]), Len(t[1].lines))]
             ELSE acc)

count_lines_run(t, fe) ==
    LET acc == count_lines_fold(t, fe, [files |-> 0, total |-> 0, stats |-> <<>>])
    IN count_lines_render(acc.files, acc.total, acc.stats)

\* ------------------------------------------------------------------------
\* Properties
\* ------------------------------------------------------------------------
Walked == rglob(root_kind, tree)

\* C1: search_code with a pattern that does not compile returns an error
\* string, and no file was opened on the way to it.
C1_InvalidPatternIsError ==
    (op = "search_code" /\ ~re_compiles(pattern)) =>
        /\ opened = <<>>
        /\ pc = "done" => result.kind = "error"

\* C2: a tree tool whose root is missing or is not a directory returns an
\* error string, never a sentinel or a zero-valued summary.
C2_BadRootIsError ==
    (op \in {"search_code", "find_files", "count_lines_of_code", "find_todos"}
        /\ pc = "done" /\ root_kind # "dir") => result.kind = "error"

\* the numbers of the lines of entry i that the search reads and that match
MatchLines(i) ==
    IF Walked[i].is_file /\ passes_filter(Walked[i], file_extensions)
    THEN {n \in 1..Len(delivered(Walked[i])) : re_search(pattern, Walked[i].lines[n])}
    ELSE {}

\* per entry, the numbers of its matching lines
MatchTable == [i \in 1..Len(Walked) |-> MatchLines(i)]

RECURSIVE SumUpTo(_, _)
SumUpTo(f, k) == IF k = 0 THEN 0 ELSE f[k] + SumUpTo(f, k - 1)

MinNat(a, b) == IF a < b THEN a ELSE b

\* C3: with a valid pattern, search_code returns the first min(100, N) of the
\* N matching lines, in file-visit order and ascending line number: the hit
\* in place k is a matching line that exactly k - 1 matching lines precede.
C3_FirstHundredInOrder ==
    (op = "search_code" /\ pc = "done" /\ re_compiles(pattern)) =>
        LET table == MatchTable
            counts == [i \in 1..Len(table) |-> Cardinality(table[i])]
            total == SumUpTo(counts, Len(counts))
        IN IF total = 0 THEN result = Sentinel
           ELSE /\ result.kind = "ok"
                /\ Len(result.body) <= SEARCH_LIMIT
                /\ Len(result.body) = MinNat(total, SEARCH_LIMIT)
                /\ \A k \in 1..Len(result.body) :
                       \E i \in 1..Len(Walked) :
                           LET n == result.body[k].line_num
                           IN /\ result.body[k].path = Walked[i].path
                              /\ n \in table[i]
                              /\ result.body[k].text = strip(Walked[i].lines[n])
                              /\ k - 1 = SumUpTo(counts, i - 1)
                                   + Cardinality({m \in table[i] : m < n})

\* more than 100 lines matched, spread over several files, and 100 came back
C3_Witness ==
    /\ op = "search_code" /\ pc = "done" /\ re_compiles(pattern)
    /\ result.kind = "ok" /\ Len(result.body) = SEARCH_LIMIT
    /\ LET table == MatchTable
           counts == [i \in 1..Len(table) |-> Cardinality(table[i])]
       IN /\ SumUpTo(counts, Len(counts)) > SEARCH_LIMIT
          /\ Cardinality({i \in 1..Len(table) : table[i] # {}}) >= 3

\* the sum of the values of a Counter
RECURSIVE counter_sum(_)
counter_sum(c) ==
    IF DOMAIN c = {} THEN 0
    ELSE LET k == CHOOSE x \in DOMAIN c : TRUE
         IN c[k] + counter_sum([x \in DOMAIN c \ {k} |-> c[x]])

\* the entries among the first k whose lines were added to the counts
CountedEntries(k) ==
    {i \in 1..k : /\ Walked[i].is_file
                  /\ passes_filter(Walked[i], file_extensions)
                  /\ Walked[i].failAt < 0}

\* C4: total_lines equals the sum of the by-extension counts after every
\* file of the traversal, skipped files included, and in the summary;
\* total_files is the number of files whose lines were added.
C4_TotalsAgree ==
    op = "count_lines_of_code" =>
        /\ total_lines = counter_sum(stats)
        /\ total_files = Cardinality(CountedEntries(idx - 1))
        /\ pc = "done" =>
               /\ result.kind = "ok"
               /\ result.body[1].total_lines = counter_sum(result.body[1].by_extension)
               /\ result.body[1].total_files = Cardinality(CountedEntries(Len(Walked)))

\* a finished count of several files over two extensions, with a file that
\* failed to open or read skipped on the way
C4_Witness ==
    /\ op = "count_lines_of_code" /\ pc = "done"
    /\ Cardinality(DOMAIN stats) >= 2
    /\ total_files >= 2 /\ total_lines > total_files
    /\ \E i \in 1..Len(Walked) :
           /\ Walked[i].is_file /\ passes_filter(Walked[i], file_extensions)
           /\ Walked[i].failAt >= 0

\* the lines of the file that are long enough to be candidates
DupCandidates == {i \in 1..Len(content) : Len(strip(content[i])) >= min_length}

\* per line of the file, the text it is grouped under
DupKeys == [i \in 1..Len(content) |-> rstrip(content[i])]

\* per line of the file, how many candidate lines share its text
DupOccurrences(cands, keys) ==
    [i \in 1..Len(content) |-> Cardinality({j \in cands : keys[j] = keys[i]})]

\* the first occurrences of the texts that occur more than once
DupFirsts(cands, keys, occ) ==
    {i \in cands : occ[i] > 1 /\ \A j \in cands : j < i => keys[j] # keys[i]}

\* count descending, then first occurrence in the file
DupBefore(occ, i, j) == occ[i] > occ[j] \/ (occ[i] = occ[j] /\ i < j)

\* the group shown in row k: the one that exactly k - 1 groups come before
DupGroupOfRow(occ, firsts, k) ==
    CHOOSE i \in firsts : Cardinality({j \in firsts : DupBefore(occ, j, i)}) = k - 1

\* C5: find_duplicate_lines returns at most 20 groups, each occurring more
\* than once, by count descending and first occurrence on ties, and they are
\* the top of that order.
C5_TopTwentyByCount ==
    (op = "find_duplicate_lines" /\ pc = "done" /\ file_exists) =>
        LET cands == DupCandidates
            keys == DupKeys
            occ == DupOccurrences(cands, keys)
            firsts == DupFirsts(cands, keys, occ)
        IN IF firsts = {} THEN result = Sentinel
           ELSE /\ result.kind = "ok"
                /\ Len(result.body) <= DUPLICATE_LIMIT
                /\ Len(result.body) = MinNat(Cardinality(firsts), DUPLICATE_LIMIT)
                /\ \A k \in 1..Len(result.body) :
                       LET g == DupGroupOfRow(occ, firsts, k)
                       IN /\ result.body[k].count > 1
                          /\ result.body[k].count = occ[g]
                          /\ match_at(result.body[k].shown, 1,
                                      slice_to(keys[g], DISPLAY_WIDTH))

\* more than 20 duplicated texts, some with equal counts, and 20 came back
C5_Witness ==
    /\ op = "find_duplicate_lines" /\ pc = "done" /\ file_exists
    /\ result.kind = "ok" /\ Len(result.body) = DUPLICATE_LIMIT
    /\ LET cands == DupCandidates
           keys == DupKeys
           occ == DupOccurrences(cands, keys)
           firsts == DupFirsts(cands, keys, occ)
       IN /\ Cardinality(firsts) > DUPLICATE_LIMIT
          /\ \E i \in firsts : \E j \in firsts : i # j /\ occ[i] = occ[j]
          /\ \E i \in firsts : \E j \in firsts : occ[i] # occ[j]

\* C6: a group's displayed text is the first 80 characters of the line, with
\* the cut-off indicator only when the line is longer than 80 characters.
C6_IndicatorOnlyWhenCut ==
    (op = "find_duplicate_lines" /\ pc = "done" /\ result.kind = "ok") =>
        LET cands == DupCandidates
            keys == DupKeys
            occ == DupOccurrences(cands, keys)
            firsts == DupFirsts(cands, keys, occ)
        IN \A k \in 1..Len(result.body) :
               LET line == keys[DupGroupOfRow(occ, firsts, k)]
               IN result.body[k].shown =
                      IF Len(line) > DISPLAY_WIDTH
                      THEN slice_to(line, DISPLAY_WIDTH) \o Ellipsis
                      ELSE line

\* a filter entry with its leading "." dropped
FilterEntry(x) == IF x # <<>> /\ x[1] = "." THEN Tail(x) ELSE x

\* C7: under a non-empty extension filter, search_code and
\* count_lines_of_code consider a file exactly when its extension equals a
\* filter entry case-sensitively, a leading "." on the entry being ignored.
C7_FilterIgnoresLeadingDot ==
    (op \in {"search_code", "count_lines_of_code"}
        /\ ~parse_extensions(file_extensions).is_none) =>
        \A i \in 1..MinNat(idx - 1, Len(Walked)) :
            (Walked[i].is_file /\ Walked[i].failAt # 0) =>
                (Walked[i].path \in Range(opened) <=>
                    suffix_tail(Walked[i].path) \in
                        {FilterEntry(x) :
                            x \in Range(parse_extensions(file_extensions).val)})


\* the enumeration without its entry i
RemoveAt(t, i) == SubSeq(t, 1, i - 1) \o SubSeq(t, i + 1, Len(t))

\* the result of the running tool on the enumeration t
ToolResultOn(t) ==
    IF op = "search_code" THEN search_code_run(t, pattern, file_extensions)
    ELSE IF op = "count_lines_of_code" THEN count_lines_run(t, file_extensions)
    ELSE find_todos_run(t)

\* C8: in search_code, count_lines_of_code and find_todos a file that fails
\* to open or read leaves no trace: the result is an ordinary one, equal to
\* the result on the same tree without that file.
C8_FailedFileLeavesNoTrace ==
    (op \in {"search_code", "count_lines_of_code", "find_todos"} /\ pc = "done") =>
        \A i \in 1..Len(Walked) :
            (Walked[i].is_file /\ Walked[i].failAt >= 0) =>
                /\ result.kind # "error"
                /\ result = ToolResultOn(RemoveAt(Walked, i))

\* C9: every hit of find_todos comes from a file with an allowed suffix, is
\* the only hit of its line, has one of the five upper-case marker kinds, and
\* carries the trimmed text after the colon of the first match on the line.
C9_MarkerHitsWellFormed ==
    op = "find_todos" =>
        \A k \in 1..Len(todos) :
            LET h == todos[k]
                e == Walked[CHOOSE i \in 1..Len(Walked) : Walked[i].path = h.path]
                line == e.lines[h.line_num]
                at == {i \in 1..Len(line) : todo_match_at(line, i).found}
            IN /\ path_suffix(h.path) \in SourceSuffixes
               /\ \A j \in 1..Len(todos) :
                      (todos[j].path = h.path /\ todos[j].line_num = h.line_num) => j = k
               /\ h.kind \in Range(Markers)
               /\ at # {}
               /\ h.message = strip(SubSeq(line, MinOf(at) + Len(h.kind) + 1, Len(line)))

\* t begins with p
BeginsWith(t, p) == Len(t) >= Len(p) /\ SubSeq(t, 1, Len(p)) = p

\* t is head, then a non-empty text, then tail, then anything
Shaped(t, head, tail) ==
    /\ BeginsWith(t, head)
    /\ \E m \in 1..Len(t) : BeginsWith(SubSeq(t, Len(head) + m + 1, Len(t)), tail)

\* the trimmed line has one of the four import shapes
Qualifies(line) ==
    LET t == strip(line)
    IN \/ BeginsWith(t, Str_import)
       \/ Shaped(t, Str_from, Str_mid_import)
       \/ Shaped(t, Str_const, Str_require)
       \/ Shaped(t, Str_var, Str_require)

\* the trimmed qualifying lines among the first n lines of the file
QualifyingLines(n) ==
    LET q == SelectSeq(SubSeq(content, 1, n), Qualifies)
    IN [i \in 1..Len(q) |-> strip(q[i])]

\* C10: on an existing file extract_imports collects, in file order and once
\* per occurrence, the trimmed text of exactly the lines that have an import
\* shape, and returns them (or the "No imports found" string when none).
C10_ImportsInFileOrder ==
    (op = "extract_imports" /\ file_exists) =>
        /\ pc = "read" => imports = QualifyingLines(idx - 1)
        /\ pc = "done" =>
               result = IF QualifyingLines(Len(content)) = <<>> THEN Sentinel
                        ELSE Ok(QualifyingLines(Len(content)))

\* a returned list that repeats an import and leaves a line of the file out
C10_Witness ==
    /\ op = "extract_imports" /\ pc = "done" /\ file_exists
    /\ result.kind = "ok"
    /\ Len(result.body) < Len(content)
    /\ \E i \in 1..Len(result.body) : \E j \in 1..Len(result.body) :
           i < j /\ result.body[i] = result.body[j]
    /\ \E i \in 1..Len(content) : content[i] = ImpLineConst

\* ------------------------------------------------------------------------
\* All tools together
\* ------------------------------------------------------------------------
Init == InitTree \/ InitDup \/ InitImports
Next == NextTree \/ NextDup \/ NextImports
Spec == Init /\ [][Next]_vars

====
